---- MODULE Spec2Model ----
(***************************************************************************)
(* State-machine models of the calibration applications                    *)
(*   src/applications/continuous_time_imu_to_camera_calibration_new.cc     *)
(*   src/applications/create_imu_camera_charuco.cc                         *)
(*   src/applications/calibrate_camera.cc                                  *)
(* Each application is a program of its own with its own variables, its    *)
(* own next-state relation and its own specifications; while one runs the  *)
(* variables of the others keep their initial values.                      *)
(*                                                                         *)
(* main() is a straight-line program; every step of it is one action and   *)
(* pc records the position.  The input artifacts (files on disk and the    *)
(* command line) are the environment: they exist before main() starts and  *)
(* are chosen by Init, the read steps copy them into the program's         *)
(* variables.                                                              *)
(*                                                                         *)
(* Representation of values.                                               *)
(*  - Times.  A double holding seconds (a view's name, t0, tend, dt_r3,    *)
(*    the time offset, max_t) is held as its whole number of microseconds; *)
(*    timestamp_ms of a sample is held as its whole number of              *)
(*    milliseconds; an int64 nanosecond count is held as that integer.     *)
(*    "x * 1e9" on seconds is therefore SecToNs (times 1000 on the         *)
(*    microsecond count), "x / 1000.0" on milliseconds is MsToSec (times   *)
(*    1000).  Floating-point rounding is not modelled.                     *)
(*  - Vectors are pairs of integers, rotations are quarter turns 0..3 of   *)
(*    the plane (a subgroup of SO3); an SE3 is represented by its rotation *)
(*    (only .so3() of the initial poses is read by the modelled code).     *)
(***************************************************************************)
EXTENDS Integers, Sequences, FiniteSets, TLC

\* ------------------------------------------------------------------ bounds
MaxViews == 3
MaxAccel == 2
MaxGyro == 1
MaxFrames == 5

\* ------------------------------------------------------- program constants
\* const int N = 5 (spline order)
N == 5

\* ------------------------------------------------------------ pure helpers
Abs(x) == IF x < 0 THEN -x ELSE x

\* C++ integer division truncates toward zero.
CDiv(a, b) ==
  IF (a >= 0) = (b > 0) THEN Abs(a) \div Abs(b) ELSE -(Abs(a) \div Abs(b))

Ceil(a, b) == IF a % b = 0 THEN a \div b ELSE (a \div b) + 1

\* double seconds (held in us) * 1e9 -> int64 ns
SecToNs(us) == us * 1000

\* double milliseconds / 1000.0 -> double seconds (held in us)
MsToSec(ms) == ms * 1000

\* a plain number x read as a count of seconds (held in us)
AsSec(x) == x * 1000000

\* int64(double seconds): truncation of the seconds value itself
TruncSec(us) == CDiv(us, 1000000)

VAdd(u, v) == <<u[1] + v[1], u[2] + v[2]>>

\* rotation group: quarter turns
RotCompose(a, b) == (a + b) % 4
RotInverse(a) == (4 - a) % 4
RotApply(r, v) ==
  CASE r = 0 -> v
    [] r = 1 -> <<-v[2], v[1]>>
    [] r = 2 -> <<-v[1], -v[2]>>
    [] r = 3 -> <<v[2], -v[1]>>

RECURSIVE SeqMin(_)
SeqMin(s) ==
  IF Len(s) = 1 THEN s[1]
  ELSE LET m == SeqMin(Tail(s)) IN IF s[1] <= m THEN s[1] ELSE m

RECURSIVE SeqMax(_)
SeqMax(s) ==
  IF Len(s) = 1 THEN s[1]
  ELSE LET m == SeqMax(Tail(s)) IN IF s[1] >= m THEN s[1] ELSE m

SeqsUpTo(S, n) == UNION {[1..k -> S] : k \in 0..n}

IsSorted(s) == \A i \in 1..Len(s) - 1 : s[i].timestamp_ms <= s[i + 1].timestamp_ms

\* ------------------------------------------------------------------- state
VARIABLES
  files,                  \* the environment: artifacts on disk
  FLAGS_max_t,            \* --max_t
  pc,                     \* position in main()
  report,                 \* message of the fatal report, "" if none
  accl_bias, gyro_bias,
  calib_dataset,          \* views in ViewIds() order: [timestamp, rot]
  telemetry_data,         \* [accelerometer, gyroscope]: sequences of samples
  imu2cam, time_offset_imu_to_cam,
  weight_data,            \* [dt_so3, dt_r3]
  timestamps, t0, tend,
  start_t_ns, end_t_ns, dt_so3_ns, dt_r3_ns,
  calib_spline,           \* the estimator (CeresCalibrationSplineSplit<N>)
  calib_corners,          \* keys (frame_id) of the corner map
  calib_init_poses,       \* frame_id -> T_a_c
  j, g_initialized, g_a_init,
  mean_reproj, printed,
  reported                \* the estimates written to the output (lines 252-257)

ctVars ==
  <<files, FLAGS_max_t, pc, report, accl_bias, gyro_bias, calib_dataset,
    telemetry_data, imu2cam, time_offset_imu_to_cam, weight_data, timestamps,
    t0, tend, start_t_ns, end_t_ns, dt_so3_ns, dt_r3_ns, calib_spline,
    calib_corners, calib_init_poses, j, g_initialized, g_a_init, mean_reproj,
    printed, reported>>

\* state of create_imu_camera_charuco.cc
VARIABLES
  inputVideo,             \* the environment: what each read of the video yields
  ch_pc,                  \* position in main()
  ch_reads,               \* reads of inputVideo done so far
  ch_cnt_wrong, ch_frame_cnt,
  recon_calib_dataset,    \* views in ViewIds() order: [name, tracks]
  ch_timestamps, ch_t0, ch_tend,
  kontiki_views,          \* view ids (indices into recon_calib_dataset)
  kontiki_landmarks,      \* sequence of [track, locked, observations]
  r3_traj_spline, so3_traj_spline,
  measurements            \* sequence of [view, landmark]

charucoVars ==
  <<inputVideo, ch_pc, ch_reads, ch_cnt_wrong, ch_frame_cnt, recon_calib_dataset,
    ch_timestamps, ch_t0, ch_tend, kontiki_views, kontiki_landmarks,
    r3_traj_spline, so3_traj_spline, measurements>>

\* state of calibrate_camera.cc
VARIABLES
  calibVideo,             \* the environment: what each read of the video yields
  fps,                    \* the environment: CAP_PROP_FPS of the video
  FLAGS_camera_model_to_calibrate,
  cc_pc,                  \* position in main()
  cc_reads,               \* reads of the video done so far
  cc_cnt_wrong, cc_frame_cnt, skip_frames,
  saved_poses,
  cc_recon_calib_dataset, \* views in ViewIds() order: [id, name, position, type]
  cc_next_view_id,
  ids_to_remove_after_init, ids_to_remove,
  output_str,
  written,                \* the files written, in order: [file, views]
  json,                   \* the fields of the result json set so far
  cc_messages             \* what was printed for the caller

calibVars ==
  <<calibVideo, fps, FLAGS_camera_model_to_calibrate, cc_pc, cc_reads, cc_cnt_wrong,
    cc_frame_cnt, skip_frames, saved_poses, cc_recon_calib_dataset,
    cc_next_view_id, ids_to_remove_after_init, ids_to_remove, output_str, written,
    json, cc_messages>>

\* the variables of the applications other than the continuous-time one
otherVars == <<charucoVars, calibVars>>

vars == <<ctVars, charucoVars, calibVars>>

\* an Eigen vector that was declared but never assigned
Indeterminate == <<>>

\* what a read of indeterminate memory can yield
GarbageVecs == {<<0, 0>>, <<7, 7>>}
GarbageSec == {0, 1000}

Artifacts == {"imu_bias", "reconstruction", "telemetry", "imu2cam", "sew_flag", "sew"}

\* the free parameters as optimize() leaves them: none before it has returned
NoEstimate == <<>>

NoSpline ==
  [state |-> "None", T_i_c |-> 0, g |-> Indeterminate, g_set |-> FALSE,
   T_w_i_init |-> 0, num_knots_so3 |-> 0, num_knots_r3 |-> 0,
   corners |-> {}, accel |-> <<>>, gyro |-> <<>>, estimate |-> NoEstimate]

\* ------------------------------------------------------------ environment
View(ts, r) == [timestamp |-> ts, rot |-> r]
Accl(ts, v) == [timestamp_ms |-> ts, acc_masurement |-> v]
Gyro(ts, v) == [timestamp_ms |-> ts, gyro_measurement |-> v]

InitWith(Unreadable, Biases, Recons, Accels, Gyros, Aligns, Weights, MaxTs) ==
  /\ files \in [unreadable : Unreadable, bias : Biases, reconstruction : Recons,
                accelerometer : Accels, gyroscope : Gyros, imu2cam : Aligns,
                sew : Weights]
  /\ FLAGS_max_t \in MaxTs
  /\ pc = "read_bias"
  /\ report = ""
  /\ accl_bias = Indeterminate
  /\ gyro_bias = Indeterminate
  /\ calib_dataset = <<>>
  /\ telemetry_data = [accelerometer |-> <<>>, gyroscope |-> <<>>]
  /\ imu2cam = 0
  /\ time_offset_imu_to_cam = 0
  /\ weight_data = [dt_so3 |-> 0, dt_r3 |-> 0]
  /\ timestamps = <<>>
  /\ t0 = 0
  /\ tend = 0
  /\ start_t_ns = 0
  /\ end_t_ns = 0
  /\ dt_so3_ns = 0
  /\ dt_r3_ns = 0
  /\ calib_spline = NoSpline
  /\ calib_corners = {}
  /\ calib_init_poses = <<>>
  /\ j = 0
  /\ g_initialized = FALSE
  /\ g_a_init = Indeterminate
  /\ mean_reproj = "unset"
  /\ printed = FALSE
  /\ reported = <<>>

\* ----------------------------------------------------------------- actions
progVars ==
  <<accl_bias, gyro_bias, calib_dataset, telemetry_data, imu2cam,
    time_offset_imu_to_cam, weight_data>>
windowVars == <<timestamps, t0, tend, start_t_ns, end_t_ns, dt_so3_ns, dt_r3_ns>>
mapVars == <<calib_corners, calib_init_poses>>
gravVars == <<j, g_initialized, g_a_init>>
outVars == <<mean_reproj, printed, reported>>

\* glog CHECK(cond) << msg: a failed check logs msg and aborts the process.
\* (variant: the failed check is logged and the run goes on)
CheckPcContinue(ok, next) == next

CheckPc(ok, next) == IF ok THEN next ELSE "aborted"
CheckReport(ok, msg) == IF ok THEN report ELSE msg

\* lines 54-57
ReadIMUBias ==
  /\ pc = "read_bias"
  /\ LET ok == "imu_bias" \notin files.unreadable IN
     /\ pc' = CheckPc(ok, "read_reconstruction")
     /\ report' = CheckReport(ok, "Could not open imu_bias_file")
     /\ accl_bias' = IF ok THEN files.bias.accl ELSE accl_bias
     /\ gyro_bias' = IF ok THEN files.bias.gyro ELSE gyro_bias
  /\ UNCHANGED <<otherVars, files, FLAGS_max_t, calib_dataset, telemetry_data, imu2cam,
                 time_offset_imu_to_cam, weight_data, windowVars, calib_spline,
                 mapVars, gravVars, outVars>>

\* lines 59-63
ReadReconstruction ==
  /\ pc = "read_reconstruction"
  /\ LET ok == "reconstruction" \notin files.unreadable IN
     /\ pc' = CheckPc(ok, "read_telemetry")
     /\ report' = CheckReport(ok, "Could not read Reconstruction file.")
     /\ calib_dataset' = IF ok THEN files.reconstruction ELSE calib_dataset
  /\ UNCHANGED <<otherVars, files, FLAGS_max_t, accl_bias, gyro_bias, telemetry_data,
                 imu2cam, time_offset_imu_to_cam, weight_data, windowVars,
                 calib_spline, mapVars, gravVars, outVars>>

\* lines 64-68
ReadGoProTelemetry ==
  /\ pc = "read_telemetry"
  /\ LET ok == "telemetry" \notin files.unreadable IN
     /\ pc' = CheckPc(ok, "read_imu2cam")
     /\ report' = CheckReport(ok, "Could not read: gopro_telemetry_json")
     /\ telemetry_data' =
          IF ok THEN [accelerometer |-> files.accelerometer,
                      gyroscope |-> files.gyroscope]
          ELSE telemetry_data
  /\ UNCHANGED <<otherVars, files, FLAGS_max_t, accl_bias, gyro_bias, calib_dataset,
                 imu2cam, time_offset_imu_to_cam, weight_data, windowVars,
                 calib_spline, mapVars, gravVars, outVars>>

\* lines 70-76
ReadIMU2CamInit ==
  /\ pc = "read_imu2cam"
  /\ LET ok == "imu2cam" \notin files.unreadable IN
     /\ pc' = CheckPc(ok, "check_sew_flag")
     /\ report' = CheckReport(ok, "Could not read: gyro_to_cam_initial_calibration")
     /\ imu2cam' = IF ok THEN files.imu2cam.rot ELSE imu2cam
     /\ time_offset_imu_to_cam' =
          IF ok THEN files.imu2cam.time_offset ELSE time_offset_imu_to_cam
  /\ UNCHANGED <<otherVars, files, FLAGS_max_t, accl_bias, gyro_bias, calib_dataset,
                 telemetry_data, weight_data, windowVars, calib_spline, mapVars,
                 gravVars, outVars>>

\* line 77: Sophus::SE3<double> T_i_c_init(imu2cam.conjugate(), 0)
T_i_c_init == RotInverse(imu2cam)

\* lines 79-81
CheckSewFlag ==
  /\ pc = "check_sew_flag"
  /\ LET ok == "sew_flag" \notin files.unreadable IN
     /\ pc' = CheckPc(ok, "read_sew")
     /\ report' = CheckReport(ok, "You need to provide spline error weighting factors.")
  /\ UNCHANGED <<otherVars, files, FLAGS_max_t, progVars, windowVars, calib_spline, mapVars,
                 gravVars, outVars>>

\* lines 82-85
ReadSplineErrorWeighting ==
  /\ pc = "read_sew"
  /\ LET ok == "sew" \notin files.unreadable IN
     /\ pc' = CheckPc(ok, "imu_rate")
     /\ report' = CheckReport(ok, "Could not open spline_error_weighting_json")
     /\ weight_data' = IF ok THEN files.sew ELSE weight_data
  /\ UNCHANGED <<otherVars, files, FLAGS_max_t, accl_bias, gyro_bias, calib_dataset,
                 telemetry_data, imu2cam, time_offset_imu_to_cam, windowVars,
                 calib_spline, mapVars, gravVars, outVars>>

\* lines 86-91: timestamp_ms[1] and timestamp_ms[0] are read unchecked; with
\* fewer than two samples the read is out of bounds (the process may fault,
\* or the unused quotient is computed from whatever is there).
ImuUpdateRate ==
  /\ pc = "imu_rate"
  /\ \E outcome \in (IF Len(telemetry_data.accelerometer) >= 2
                     THEN {"ok"} ELSE {"fault", "garbage"}) :
       pc' = IF outcome = "fault" THEN "crashed_90" ELSE "timestamps"
  /\ UNCHANGED <<otherVars, files, FLAGS_max_t, report, progVars, windowVars, calib_spline,
                 mapVars, gravVars, outVars>>

\* lines 93-103
CollectTimestamps ==
  /\ pc = "timestamps"
  /\ timestamps' = [i \in 1..Len(calib_dataset) |-> calib_dataset[i].timestamp]
  /\ pc' = "minmax"
  /\ UNCHANGED <<otherVars, files, FLAGS_max_t, report, progVars, t0, tend, start_t_ns,
                 end_t_ns, dt_so3_ns, dt_r3_ns, calib_spline, mapVars, gravVars,
                 outVars>>

\* lines 105-112: std::minmax_element, then timestamps[...] unchecked.  On an
\* empty vector both iterators are end() and timestamps[0] is read out of
\* bounds: the process may fault, or t0 and tend are whatever is there.
MinMaxOutcomes ==
  IF timestamps # <<>>
  THEN {[fault |-> FALSE, t0 |-> SeqMin(timestamps), tend |-> SeqMax(timestamps)]}
  ELSE {[fault |-> TRUE, t0 |-> 0, tend |-> 0]}
       \cup {[fault |-> FALSE, t0 |-> a, tend |-> b] : a, b \in GarbageSec}

MinMax ==
  /\ pc = "minmax"
  /\ \E r \in MinMaxOutcomes :
       /\ pc' = IF r.fault THEN "crashed_107" ELSE "construct_spline"
       /\ t0' = r.t0
       /\ tend' = r.tend
       /\ start_t_ns' = IF r.fault THEN start_t_ns ELSE SecToNs(r.t0)
       /\ end_t_ns' = IF r.fault THEN end_t_ns ELSE SecToNs(r.tend)
       /\ dt_so3_ns' = IF r.fault THEN dt_so3_ns ELSE SecToNs(weight_data.dt_so3)
       /\ dt_r3_ns' = IF r.fault THEN dt_r3_ns ELSE SecToNs(weight_data.dt_r3)
  /\ UNCHANGED <<otherVars, files, FLAGS_max_t, report, progVars, timestamps, calib_spline,
                 mapVars, gravVars, outVars>>

\* lines 114-117
ConstructSpline ==
  /\ pc = "construct_spline"
  /\ calib_spline' = [NoSpline EXCEPT !.state = "Uninitialized", !.T_i_c = T_i_c_init]
  /\ pc' = "ingest_poses"
  /\ UNCHANGED <<otherVars, files, FLAGS_max_t, report, progVars, windowVars, mapVars,
                 gravVars, outVars>>

\* line 123: the views that are not skipped
Ingested(i) ==
  ~(calib_dataset[i].timestamp >= tend \/ calib_dataset[i].timestamp < t0)

\* line 125: TimeCamId t_c_id(timestamp * 1e9, 0)
FrameId(i) == SecToNs(calib_dataset[i].timestamp)

\* lines 133-137: map[key] = value, a later view with the same key overwrites
LastViewWith(k) ==
  CHOOSE i \in 1..Len(calib_dataset) :
    /\ Ingested(i) /\ FrameId(i) = k
    /\ \A i2 \in 1..Len(calib_dataset) : (Ingested(i2) /\ FrameId(i2) = k) => i2 <= i

\* lines 118-138
IngestPoses ==
  /\ pc = "ingest_poses"
  /\ LET keys == {FrameId(i) : i \in {i2 \in 1..Len(calib_dataset) : Ingested(i2)}} IN
     /\ calib_corners' = keys
     /\ calib_init_poses' =
          [k \in keys |-> RotInverse(calib_dataset[LastViewWith(k)].rot)]
  /\ j' = 0
  /\ pc' = IF Len(timestamps) = 0 THEN "set_g" ELSE "gravity"
  /\ UNCHANGED <<otherVars, files, FLAGS_max_t, report, progVars, windowVars, calib_spline,
                 g_initialized, g_a_init, outVars>>

\* line 144 / 146: the key under which pose j is looked up
TimestampNs(jj) == SecToNs(timestamps[jj + 1])

\* line 150: T_a_i = T_a_c * T_i_c_init.inverse()
T_a_i(T_a_c) == RotCompose(T_a_c, RotInverse(T_i_c_init))

\* (variant: the raw reading, no bias added)
AdRaw(i) == telemetry_data.accelerometer[i].acc_masurement

\* lines 157-158: ad = acc_masurement[i] + accl_bias
Ad(i) == VAdd(telemetry_data.accelerometer[i].acc_masurement, accl_bias)

\* lines 159-160: accl_t_ns = timestamp_ms[i] * 1e9, the number in timestamp_ms
\* multiplied as if it were seconds.  Held as seconds (us): the nanosecond
\* count of a sample a few milliseconds in exceeds the 32-bit integers of the
\* model checker.
AcclSeedTime(i) == AsSec(telemetry_data.accelerometer[i].timestamp_ms)

\* line 161: std::abs(accl_t_ns - timestamp_ns) < 3000000, both sides taken in
\* microseconds (every time of the model is a whole number of microseconds,
\* so the division by 1000 is exact).
InSeedWindow(i, timestamp_ns) ==
  Abs(AcclSeedTime(i) - timestamp_ns \div 1000) < 3000000 \div 1000

\* lines 153-167: the inner scan stops at the first sample in the window
SeedMatches(timestamp_ns) ==
  {i \in 1..Len(telemetry_data.accelerometer) : InSeedWindow(i, timestamp_ns)}

FirstOf(S) == CHOOSE i \in S : \A i2 \in S : i <= i2

\* lines 143-170, one iteration of the loop over timestamps
GravityStep ==
  /\ pc = "gravity"
  /\ j < Len(timestamps)
  /\ LET timestamp_ns == TimestampNs(j)
         M == IF timestamp_ns \in DOMAIN calib_init_poses /\ ~g_initialized
              THEN SeedMatches(timestamp_ns) ELSE {}
     IN  /\ g_initialized' = IF M # {} THEN TRUE ELSE g_initialized
         /\ g_a_init' =
              IF M # {}
              THEN RotApply(T_a_i(calib_init_poses[timestamp_ns]), Ad(FirstOf(M)))
              ELSE g_a_init
  /\ j' = j + 1
  /\ pc' = IF j + 1 = Len(timestamps) THEN "set_g" ELSE "gravity"
  /\ UNCHANGED <<otherVars, files, FLAGS_max_t, report, progVars, windowVars, calib_spline,
                 mapVars, outVars>>

\* line 171: setG is called whether or not g_a_init was assigned; reading the
\* unassigned vector yields whatever is there.
SetG ==
  /\ pc = "set_g"
  /\ \E v \in (IF g_a_init = Indeterminate THEN GarbageVecs ELSE {g_a_init}) :
       calib_spline' = [calib_spline EXCEPT !.g = v, !.g_set = TRUE]
  /\ pc' = "init_spline"
  /\ UNCHANGED <<otherVars, files, FLAGS_max_t, report, progVars, windowVars, mapVars,
                 gravVars, outVars>>

\* line 174: TimeCamId tcid_init(timestamps[...], 0): the double of seconds is
\* converted to the int64 frame_id as it is
tcid_init == TruncSec(t0)

\* what a division by zero yields where it does not fault
DivByZeroQuotients == {0}

\* (variant: the quotient rounded up)
NumKnotsCeil(dt_ns) ==
  IF dt_ns = 0 THEN (CHOOSE q \in DivByZeroQuotients : TRUE) + N
  ELSE Ceil(end_t_ns - start_t_ns, dt_ns) + N

\* lines 177-178: the int64 quotient plus N
NumKnots(dt_ns) ==
  IF dt_ns = 0 THEN (CHOOSE q \in DivByZeroQuotients : TRUE) + N
  ELSE CDiv(end_t_ns - start_t_ns, dt_ns) + N

\* lines 173-182.  timestamps[0] of an empty vector is an out-of-bounds read
\* (fault, or some key that the empty map does not hold); map::at throws
\* std::out_of_range on a missing key and nothing catches it; an int64
\* division by zero faults or yields some quotient.
InitSplineOutcomes ==
  IF timestamps = <<>> THEN {"fault174", "throw"}
  ELSE IF tcid_init \notin DOMAIN calib_init_poses THEN {"throw"}
  ELSE IF dt_so3_ns = 0 \/ dt_r3_ns = 0 THEN {"fault177", "ok"}
  ELSE {"ok"}

InitSpline ==
  /\ pc = "init_spline"
  /\ \E outcome \in InitSplineOutcomes :
       /\ pc' = CASE outcome = "fault174" -> "crashed_174"
                  [] outcome = "throw" -> "terminated"
                  [] outcome = "fault177" -> "crashed_177"
                  [] outcome = "ok" -> "add_corners"
       /\ report' = IF outcome = "throw" THEN "std::out_of_range" ELSE report
       /\ calib_spline' =
            IF outcome = "ok"
            THEN [calib_spline EXCEPT
                    !.state = "Seeded",
                    !.T_w_i_init = T_a_i(calib_init_poses[tcid_init]),
                    !.num_knots_so3 = NumKnots(dt_so3_ns),
                    !.num_knots_r3 = NumKnots(dt_r3_ns)]
            ELSE calib_spline
  /\ UNCHANGED <<otherVars, files, FLAGS_max_t, progVars, windowVars, mapVars, gravVars,
                 outVars>>

\* line 198
CornerInRange(frame_id) == frame_id >= start_t_ns /\ frame_id < end_t_ns

\* lines 196-212
AddCorners ==
  /\ pc = "add_corners"
  /\ calib_spline' =
       [calib_spline EXCEPT !.corners = {k \in calib_corners : CornerInRange(k)}]
  /\ pc' = "add_accel"
  /\ UNCHANGED <<otherVars, files, FLAGS_max_t, report, progVars, windowVars, mapVars,
                 gravVars, outVars>>

\* lines 218-219 / 232-233: t = (timestamp_ms / 1000.0 + time_offset) * 1e9
SampleTimeNs(timestamp_ms) == SecToNs(MsToSec(timestamp_ms) + time_offset_imu_to_cam)

\* (variant: a sample at end_t_ns is kept)
SampleSkippedAfterEnd(t) == t < start_t_ns \/ t > end_t_ns

\* lines 220 / 234: if (t < start_t_ns || t >= end_t_ns) continue;
SampleSkipped(t) == t < start_t_ns \/ t >= end_t_ns

AccelKept(s) == ~SampleSkipped(SampleTimeNs(s.timestamp_ms))

\* lines 223-224: the value handed to addAccelMeasurement
AccelValue(s) == VAdd(s.acc_masurement, accl_bias)

\* lines 214-227
AddAccel ==
  /\ pc = "add_accel"
  /\ LET kept == SelectSeq(telemetry_data.accelerometer, AccelKept) IN
       calib_spline' =
         [calib_spline EXCEPT !.accel =
            [i \in 1..Len(kept) |->
               [value |-> AccelValue(kept[i]),
                t |-> SampleTimeNs(kept[i].timestamp_ms)]]]
  /\ pc' = "add_gyro"
  /\ UNCHANGED <<otherVars, files, FLAGS_max_t, report, progVars, windowVars, mapVars,
                 gravVars, outVars>>

GyroKept(s) == ~SampleSkipped(SampleTimeNs(s.timestamp_ms))

\* (variant: the raw reading, no bias added)
GyroValueRaw(s) == s.gyro_measurement

\* lines 237-238: the value handed to addGyroMeasurement
GyroValue(s) == VAdd(s.gyro_measurement, gyro_bias)

\* lines 228-241
AddGyro ==
  /\ pc = "add_gyro"
  /\ LET kept == SelectSeq(telemetry_data.gyroscope, GyroKept) IN
       calib_spline' =
         [calib_spline EXCEPT !.gyro =
            [i \in 1..Len(kept) |->
               [value |-> GyroValue(kept[i]),
                t |-> SampleTimeNs(kept[i].timestamp_ms)]]]
  /\ pc' = "optimize"
  /\ UNCHANGED <<otherVars, files, FLAGS_max_t, report, progVars, windowVars, mapVars,
                 gravVars, outVars>>

\* (variant: optimize() is entered before the gyroscope loop)
OptimizeStartBeforeGyro ==
  /\ pc = "add_gyro"
  /\ calib_spline' = [calib_spline EXCEPT !.state = "Optimizing"]
  /\ UNCHANGED <<otherVars, files, FLAGS_max_t, pc, report, progVars, windowVars, mapVars,
                 gravVars, outVars>>

\* line 244: calib_spline.optimize() is entered ...
OptimizeStart ==
  /\ pc = "optimize"
  /\ calib_spline' = [calib_spline EXCEPT !.state = "Optimizing"]
  /\ pc' = "optimizing"
  /\ UNCHANGED <<otherVars, files, FLAGS_max_t, report, progVars, windowVars, mapVars,
                 gravVars, outVars>>

\* what the solver can leave in the free parameters (gravity, accelerometer
\* bias, gyroscope bias, extrinsic rotation): any values, two of them here
Estimate(gv, ab, gb, r) == [g |-> gv, accel_bias |-> ab, gyro_bias |-> gb, T_i_c |-> r]
Solutions == {Estimate(<<0, 9>>, <<0, 0>>, <<0, 0>>, 0),
              Estimate(<<1, 9>>, <<1, 0>>, <<0, 1>>, 1)}

\* ... and returns its summary: the solver converged or it did not, the free
\* parameters adjusted in place
OptimizeReturn ==
  /\ pc = "optimizing"
  /\ \E result \in {"Converged", "Failed"} : \E sol \in Solutions :
       calib_spline' = [calib_spline EXCEPT !.state = result, !.estimate = sol]
  /\ pc' = "mean_reproj"
  /\ UNCHANGED <<otherVars, files, FLAGS_max_t, report, progVars, windowVars, mapVars,
                 gravVars, outVars>>

\* (variant: line 243 not commented out, the diagnostic runs before optimize)
MeanReprojectionBeforeOptimize ==
  /\ pc = "optimize"
  /\ mean_reproj = "unset"
  /\ mean_reproj' = "computed"
  /\ UNCHANGED <<otherVars, files, FLAGS_max_t, pc, report, progVars, windowVars,
                 calib_spline, mapVars, gravVars, printed, reported>>

\* meanReprojection(corners) as it acts on the estimator: a read-only
\* diagnostic, the estimator is left as it was
meanReprojection(cs) == cs

\* (variant: the diagnostic re-solves and leaves other estimates behind)
MeanReprojectionRefits ==
  /\ pc = "mean_reproj"
  /\ mean_reproj' = "computed"
  /\ \E sol \in Solutions : calib_spline' = [calib_spline EXCEPT !.estimate = sol]
  /\ pc' = "print"
  /\ UNCHANGED <<otherVars, files, FLAGS_max_t, report, progVars, windowVars, mapVars,
                 gravVars, printed, reported>>

\* line 246
MeanReprojection ==
  /\ pc = "mean_reproj"
  /\ mean_reproj' = "computed"
  /\ calib_spline' = meanReprojection(calib_spline)
  /\ pc' = "print"
  /\ UNCHANGED <<otherVars, files, FLAGS_max_t, report, progVars, windowVars, mapVars,
                 gravVars, printed, reported>>

\* lines 248-260: getG(), getAccelBias(), getGyroBias(), getT_i_c() are printed
PrintResults ==
  /\ pc = "print"
  /\ printed' = TRUE
  /\ reported' = calib_spline.estimate
  /\ pc' = "done"
  /\ UNCHANGED <<otherVars, files, FLAGS_max_t, report, progVars, windowVars, calib_spline,
                 mapVars, gravVars, mean_reproj>>

Next ==
  \/ ReadIMUBias
  \/ ReadReconstruction
  \/ ReadGoProTelemetry
  \/ ReadIMU2CamInit
  \/ CheckSewFlag
  \/ ReadSplineErrorWeighting
  \/ ImuUpdateRate
  \/ CollectTimestamps
  \/ MinMax
  \/ ConstructSpline
  \/ IngestPoses
  \/ GravityStep
  \/ SetG
  \/ InitSpline
  \/ AddCorners
  \/ AddAccel
  \/ AddGyro
  \/ OptimizeStart
  \/ OptimizeReturn
  \/ MeanReprojection
  \/ PrintResults

\* =========================================================================
\* src/applications/create_imu_camera_charuco.cc
\*
\* Representation.  CAP_PROP_POS_MSEC (a double of milliseconds) is held in
\* tenths of a microsecond; a view name, the decimal string of seconds that
\* std::to_string writes with six decimals, is held as its whole number of
\* microseconds, and std::stod reads that number back; seconds (timestamps,
\* t0, tend, dt) are held in microseconds.  A track id is the charuco corner
\* id it was created for (lines 122-132: AddTrack numbers the tracks in the
\* order of the corners).
\* =========================================================================
squaresX == 10
squaresY == 8
min_number_detected_corners == 30
\* line 145: if (cnt_wrong > 200) break;
MaxCntWrongCharuco == 200
\* lines 218-219, in microseconds
dt_r3 == 100000
dt_so3 == 100000

\* lines 120-132: one track per chessboard corner of the board
TrackIds == 0..((squaresX - 1) * (squaresY - 1) - 1)

\* line 148: std::to_string(pos_msec / 1000.0) rounds to six decimals
to_string(pos) == (pos + 5) \div 10

\* what inputVideo.read() yields
Frame(pos, ids) == [ok |-> TRUE, pos |-> pos, charucoIds |-> ids]
FailedRead == [ok |-> FALSE, pos |-> 0, charucoIds |-> {}]

\* a uniform spline: knot spacing, time of the first knot, knot values
Spline(dt, start) == [dt |-> dt, t0 |-> start, knots |-> <<>>]
NoTrajectory == [dt |-> 0, t0 |-> 0, knots |-> <<>>]

CharucoInitWith(Videos) ==
  /\ inputVideo \in Videos
  /\ ch_pc = "ch_read_reconstruction"
  /\ ch_reads = 0
  /\ ch_cnt_wrong = 0
  /\ ch_frame_cnt = 0
  /\ recon_calib_dataset = <<>>
  /\ ch_timestamps = <<>>
  /\ ch_t0 = 0
  /\ ch_tend = 0
  /\ kontiki_views = {}
  /\ kontiki_landmarks = <<>>
  /\ r3_traj_spline = NoTrajectory
  /\ so3_traj_spline = NoTrajectory
  /\ measurements = <<>>

\* the application is not run
CharucoIdle == CharucoInitWith({<<>>})

frameVars == <<ch_reads, ch_cnt_wrong, ch_frame_cnt, recon_calib_dataset>>
chWindowVars == <<ch_timestamps, ch_t0, ch_tend>>
sfmVars == <<kontiki_views, kontiki_landmarks>>
trajVars == <<r3_traj_spline, so3_traj_spline>>

\* lines 83-86: CHECK(ReadReconstruction(...)), the file readable or not
ChReadReconstruction ==
  /\ ch_pc = "ch_read_reconstruction"
  /\ \E ok \in BOOLEAN : ch_pc' = IF ok THEN "ch_read_telemetry" ELSE "ch_aborted"
  /\ UNCHANGED <<ctVars, calibVars, inputVideo, frameVars, chWindowVars, sfmVars, trajVars,
                 measurements>>

\* lines 95-100: a failed read is printed and the run goes on
ChReadTelemetry ==
  /\ ch_pc = "ch_read_telemetry"
  /\ ch_pc' = "ch_read_detector"
  /\ UNCHANGED <<ctVars, calibVars, inputVideo, frameVars, chWindowVars, sfmVars, trajVars,
                 measurements>>

\* lines 102-109: return 0 on an invalid detector parameter file
ChReadDetectorParameters ==
  /\ ch_pc = "ch_read_detector"
  /\ \E ok \in BOOLEAN : ch_pc' = IF ok THEN "ch_frames" ELSE "ch_returned"
  /\ UNCHANGED <<ctVars, calibVars, inputVideo, frameVars, chWindowVars, sfmVars, trajVars,
                 measurements>>

\* what the next read of the video yields: past its end every read fails
NextRead == IF ch_reads < Len(inputVideo) THEN inputVideo[ch_reads + 1] ELSE FailedRead

ViewNames == {recon_calib_dataset[i].name : i \in 1..Len(recon_calib_dataset)}

\* lines 141-202, one iteration of while (true).  AddView returns
\* kInvalidViewId for a name the reconstruction already holds, MutableView
\* then returns a null pointer and line 191 writes through it.
ChFrameLoop ==
  /\ ch_pc = "ch_frames"
  /\ LET e == NextRead
         accepted == e.ok /\ Cardinality(e.charucoIds) >= min_number_detected_corners
         duplicate == accepted /\ to_string(e.pos) \in ViewNames
     IN  /\ ch_reads' = IF ch_reads < Len(inputVideo) THEN ch_reads + 1 ELSE ch_reads
         /\ ch_cnt_wrong' = IF e.ok THEN ch_cnt_wrong ELSE ch_cnt_wrong + 1
         /\ ch_frame_cnt' = IF e.ok THEN ch_frame_cnt + 1 ELSE ch_frame_cnt
         /\ recon_calib_dataset' =
              IF accepted /\ ~duplicate
              THEN Append(recon_calib_dataset,
                          [name |-> to_string(e.pos), tracks |-> e.charucoIds])
              ELSE recon_calib_dataset
         /\ ch_pc' = IF ~e.ok /\ ch_cnt_wrong + 1 > MaxCntWrongCharuco THEN "ch_timestamps"
                     ELSE IF duplicate THEN "ch_crashed_191"
                     ELSE "ch_frames"
  /\ UNCHANGED <<ctVars, calibVars, inputVideo, chWindowVars, sfmVars, trajVars, measurements>>

\* lines 205-216: timestamp = std::stod(view.Name())
ChCollectTimestamps ==
  /\ ch_pc = "ch_timestamps"
  /\ ch_timestamps' = [i \in 1..Len(recon_calib_dataset) |-> recon_calib_dataset[i].name]
  /\ ch_pc' = "ch_minmax"
  /\ UNCHANGED <<ctVars, calibVars, inputVideo, frameVars, ch_t0, ch_tend, sfmVars, trajVars,
                 measurements>>

\* lines 221-224: as in the other application, timestamps[0] of an empty
\* vector is read out of bounds
ChMinMaxOutcomes ==
  IF ch_timestamps # <<>>
  THEN {[fault |-> FALSE, t0 |-> SeqMin(ch_timestamps), tend |-> SeqMax(ch_timestamps)]}
  ELSE {[fault |-> TRUE, t0 |-> 0, tend |-> 0]}
       \cup {[fault |-> FALSE, t0 |-> a, tend |-> b] : a, b \in GarbageSec}

ChMinMax ==
  /\ ch_pc = "ch_minmax"
  /\ \E r \in ChMinMaxOutcomes :
       /\ ch_pc' = IF r.fault THEN "ch_crashed_223" ELSE "ch_filter_views"
       /\ ch_t0' = r.t0
       /\ ch_tend' = r.tend
  /\ UNCHANGED <<ctVars, calibVars, inputVideo, frameVars, ch_timestamps, sfmVars, trajVars,
                 measurements>>

\* (variant: the margin is left out of the test)
ViewSkippedNoMargin(timestamp) == timestamp >= ch_tend \/ timestamp < ch_t0

\* line 232: if (timestamp >= tend - max(dt_so3, dt_r3) ||
\*               timestamp <  t0 + max(dt_so3, dt_r3)) continue;
ViewSkipped(timestamp) ==
  LET margin == IF dt_so3 >= dt_r3 THEN dt_so3 ELSE dt_r3 IN
    timestamp >= ch_tend - margin \/ timestamp < ch_t0 + margin

\* lines 226-234
ChFilterViews ==
  /\ ch_pc = "ch_filter_views"
  /\ kontiki_views' =
       {i \in 1..Len(recon_calib_dataset) : ~ViewSkipped(recon_calib_dataset[i].name)}
  /\ ch_pc' = "ch_landmarks"
  /\ UNCHANGED <<ctVars, calibVars, inputVideo, frameVars, chWindowVars, kontiki_landmarks,
                 trajVars, measurements>>

\* lines 247-252: the retained views that observe a track
ViewsObserving(track_id) ==
  {i \in kontiki_views : track_id \in recon_calib_dataset[i].tracks}

\* (variant: one observing view is enough)
LandmarkCreatedForOneView(track_id) == Cardinality(ViewsObserving(track_id)) >= 1

\* line 253: if (nr_views >= 2)
LandmarkCreated(track_id) == Cardinality(ViewsObserving(track_id)) >= 2

RECURSIVE SetToSeq(_)
SetToSeq(S) ==
  IF S = {} THEN <<>>
  ELSE LET m == CHOOSE x \in S : \A y \in S : x <= y IN <<m>> \o SetToSeq(S \ {m})

\* lines 255-279: the landmark is locked when it is created, then one
\* observation of it is created in every retained view that observes the track
Landmark(track_id) ==
  [track |-> track_id, locked |-> TRUE,
   observations |-> SetToSeq(ViewsObserving(track_id)), reference |-> 0]

\* lines 236-282
ChCreateLandmarks ==
  /\ ch_pc = "ch_landmarks"
  /\ LET created == SetToSeq({k \in TrackIds : LandmarkCreated(k)}) IN
       kontiki_landmarks' = [n \in 1..Len(created) |-> Landmark(created[n])]
  /\ ch_pc' = "ch_references"
  /\ UNCHANGED <<ctVars, calibVars, inputVideo, frameVars, chWindowVars, kontiki_views,
                 trajVars, measurements>>

\* lines 284-286: l->set_reference(l->observations()[0])
ChSetReferences ==
  /\ ch_pc = "ch_references"
  /\ kontiki_landmarks' =
       [n \in 1..Len(kontiki_landmarks) |->
          [kontiki_landmarks[n] EXCEPT !.reference = kontiki_landmarks[n].observations[1]]]
  /\ ch_pc' = "ch_camera"
  /\ UNCHANGED <<ctVars, calibVars, inputVideo, frameVars, chWindowVars, kontiki_views,
                 trajVars, measurements>>

\* lines 288-298: cam_calib_recon.View(0) is dereferenced unchecked; the
\* calibration reconstruction holds a view 0 or View(0) is a null pointer
ChCreateCamera ==
  /\ ch_pc = "ch_camera"
  /\ \E has_view_0 \in BOOLEAN :
       ch_pc' = IF has_view_0 THEN "ch_trajectory" ELSE "ch_crashed_289"
  /\ UNCHANGED <<ctVars, calibVars, inputVideo, frameVars, chWindowVars, sfmVars, trajVars,
                 measurements>>

\* the spline's domain covers a time: with n knots of spacing dt from t0 it
\* reaches t0 + (n - order) * dt
Covers(spline, time) ==
  /\ Len(spline.knots) >= N
  /\ spline.t0 + (Len(spline.knots) - N) * spline.dt >= time

\* (variant: a knot is appended before the domain is tested)
RECURSIVE ExtendToAppendsFirst(_, _, _)
ExtendToAppendsFirst(spline, time, fill) ==
  LET longer == [spline EXCEPT !.knots = Append(@, fill)] IN
    IF Covers(longer, time) THEN longer ELSE ExtendToAppendsFirst(longer, time, fill)

\* ExtendTo(time, defaultValue): appends knots until the domain covers time
RECURSIVE ExtendTo(_, _, _)
ExtendTo(spline, time, fill) ==
  IF Covers(spline, time) THEN spline
  ELSE ExtendTo([spline EXCEPT !.knots = Append(@, fill)], time, fill)

\* lines 300-317: the splines start at time 0.0 and are extended to tend
ChExtendToTend ==
  /\ ch_pc = "ch_trajectory"
  /\ r3_traj_spline' = ExtendTo(Spline(dt_r3, 0), ch_tend, 0)
  /\ so3_traj_spline' = ExtendTo(Spline(dt_so3, 0), ch_tend, 0)
  /\ ch_pc' = "ch_measurements"
  /\ UNCHANGED <<ctVars, calibVars, inputVideo, frameVars, chWindowVars, sfmVars, measurements>>

\* the observations of a view: one for each landmark that holds the view
ObservationsOf(view_id) ==
  SelectSeq([n \in 1..Len(kontiki_landmarks) |-> [view |-> view_id, landmark |-> n]],
            LAMBDA o : \E m \in 1..Len(kontiki_landmarks[o.landmark].observations) :
                         kontiki_landmarks[o.landmark].observations[m] = view_id)

RECURSIVE AllObservations(_)
AllObservations(view_ids) ==
  IF view_ids = <<>> THEN <<>>
  ELSE ObservationsOf(Head(view_ids)) \o AllObservations(Tail(view_ids))

\* lines 319-331
ChAddMeasurements ==
  /\ ch_pc = "ch_measurements"
  /\ measurements' = AllObservations(SetToSeq(kontiki_views))
  /\ ch_pc' = "ch_extend"
  /\ UNCHANGED <<ctVars, calibVars, inputVideo, frameVars, chWindowVars, sfmVars, trajVars>>

\* lines 333-336: ExtendTo(std::max(t0, tend + 0.1), ...)
ChExtendPastTend ==
  /\ ch_pc = "ch_extend"
  /\ LET target == IF ch_t0 >= ch_tend + 100000 THEN ch_t0 ELSE ch_tend + 100000 IN
       /\ r3_traj_spline' = ExtendTo(r3_traj_spline, target, 0)
       /\ so3_traj_spline' = ExtendTo(so3_traj_spline, target, 0)
  /\ ch_pc' = "ch_solve"
  /\ UNCHANGED <<ctVars, calibVars, inputVideo, frameVars, chWindowVars, sfmVars, measurements>>

\* line 338: traj_spline_estimator.Solve(100)
ChSolve ==
  /\ ch_pc = "ch_solve"
  /\ ch_pc' = "ch_done"
  /\ UNCHANGED <<ctVars, calibVars, inputVideo, frameVars, chWindowVars, sfmVars, trajVars,
                 measurements>>

NextCharuco ==
  \/ ChReadReconstruction
  \/ ChReadTelemetry
  \/ ChReadDetectorParameters
  \/ ChFrameLoop
  \/ ChCollectTimestamps
  \/ ChMinMax
  \/ ChFilterViews
  \/ ChCreateLandmarks
  \/ ChSetReferences
  \/ ChCreateCamera
  \/ ChExtendToTend
  \/ ChAddMeasurements
  \/ ChExtendPastTend
  \/ ChSolve

\* =========================================================================
\* src/applications/calibrate_camera.cc
\*
\* Representation.  Times as in create_imu_camera_charuco.  A camera position
\* is a pair of whole centimetres, and (a - b).norm() < g is decided on the
\* squares.  A reprojection error is a whole number of pixels.
\* =========================================================================
\* theia::CameraIntrinsicsModelType, the enumerators main() uses
CameraIntrinsicsModelType == [PINHOLE |-> 0, DIVISION_UNDISTORTION |-> 4, DOUBLE_SPHERE |-> 5]

\* (variant: every branch compares theia_enum)
CameraIDToStringCompared(theia_enum) ==
  IF theia_enum = CameraIntrinsicsModelType.DOUBLE_SPHERE THEN "DOUBLE_SPHERE"
  ELSE IF theia_enum = CameraIntrinsicsModelType.DIVISION_UNDISTORTION
       THEN "DIVISION_UNDISTORTION"
  ELSE IF theia_enum = CameraIntrinsicsModelType.PINHOLE THEN "PINHOLE"
  ELSE "indeterminate"

\* lines 59-67.  The second and third conditions are the enumerators
\* themselves converted to bool (non-zero is true), not comparisons; flowing
\* off the end returns an indeterminate string.
CameraIDToString(theia_enum) ==
  IF theia_enum = CameraIntrinsicsModelType.DOUBLE_SPHERE THEN "DOUBLE_SPHERE"
  ELSE IF CameraIntrinsicsModelType.DIVISION_UNDISTORTION # 0 THEN "DIVISION_UNDISTORTION"
  ELSE IF CameraIntrinsicsModelType.PINHOLE # 0 THEN "PINHOLE"
  ELSE "indeterminate"

\* line 139
cc_min_number_detected_corners == 30
\* line 198: if (cnt_wrong > 500) break;
MaxCntWrongCalib == 500
\* line 41: --grid_size, 0.06 m by default
FLAGS_grid_size == 6
\* line 384: init_reproj_error > 10.0; line 422: view_reproj_error > 10.0
MaxReprojError == 10
\* line 389: key == 27
ESC == 27
\* line 393: NumViews() < 10; line 441: NumViews() < 8
MinViewsAccepted == 10
MinViewsLeft == 8

\* the models the frame loop dispatches on (lines 273-295)
LoopModels == {"LINEAR_PINHOLE", "DIVISION_UNDISTORTION", "DOUBLE_SPHERE"}

\* lines 323-371: the intrinsics model type a view's camera is given
ModelTypeOf(model) ==
  CASE model = "LINEAR_PINHOLE" -> CameraIntrinsicsModelType.PINHOLE
    [] model = "DIVISION_UNDISTORTION" -> CameraIntrinsicsModelType.DIVISION_UNDISTORTION
    [] model = "DOUBLE_SPHERE" -> CameraIntrinsicsModelType.DOUBLE_SPHERE
    [] OTHER -> -1

\* what inputVideo.read() and the processing of the frame yield: the position
\* in the video, the detected charuco corners, the pose initialisation
\* (success, camera position, RANSAC inliers), the reprojection error of the
\* initialised view and the key waitKey returns
CalibFrame(pos, ids, success, position, inliers, err, key) ==
  [ok |-> TRUE, pos |-> pos, charucoIds |-> ids, success_init |-> success,
   position |-> position, inliers |-> inliers, init_reproj_error |-> err,
   key |-> key]
CalibFailedRead ==
  [ok |-> FALSE, pos |-> 0, charucoIds |-> {}, success_init |-> FALSE,
   position |-> <<0, 0>>, inliers |-> 0, init_reproj_error |-> 0, key |-> 0]

NoJson == <<>>

CalibInitWith(Videos, Models) ==
  /\ \E vf \in Videos : calibVideo = vf[1] /\ fps = vf[2]
  /\ FLAGS_camera_model_to_calibrate \in Models
  /\ cc_pc = "cc_read_detector"
  /\ cc_reads = 0
  /\ cc_cnt_wrong = 0
  /\ cc_frame_cnt = 0
  /\ skip_frames = 0
  /\ saved_poses = <<>>
  /\ cc_recon_calib_dataset = <<>>
  /\ cc_next_view_id = 0
  /\ ids_to_remove_after_init = {}
  /\ ids_to_remove = {}
  /\ output_str = ""
  /\ written = <<>>
  /\ json = NoJson
  /\ cc_messages = {}

\* the application is not run
CalibIdle == CalibInitWith({<<(<<>>), 0>>}, {"DOUBLE_SPHERE"})

ccEnv == <<calibVideo, fps, FLAGS_camera_model_to_calibrate>>
ccLoopVars ==
  <<cc_reads, cc_cnt_wrong, cc_frame_cnt, saved_poses, cc_recon_calib_dataset,
    cc_next_view_id, ids_to_remove_after_init>>
ccOutVars == <<output_str, written, json>>

\* lines 149-157: return 0 on an invalid detector parameter file
CcReadDetectorParameters ==
  /\ cc_pc = "cc_read_detector"
  /\ \E ok \in BOOLEAN :
       /\ cc_pc' = IF ok THEN "cc_open_video" ELSE "cc_returned"
       /\ cc_messages' = IF ok THEN cc_messages
                         ELSE cc_messages \cup {"Invalid detector parameters file"}
  /\ UNCHANGED <<ctVars, charucoVars, ccEnv, ccLoopVars, skip_frames, ids_to_remove,
                 ccOutVars>>

\* the smallest int
INT_MIN == (-2147483647) - 1

\* line 187: int(fps / fps).  A video that reports 0 frames per second (one
\* that could not be opened does) makes the quotient a NaN, and converting a
\* NaN to int is undefined: builds yield 0 or INT_MIN.
SkipFramesOutcomes(f) == IF f # 0 THEN {1} ELSE {0, INT_MIN}

\* a % b of C++ for a >= 0 and b # 0
CRem(a, b) == IF b = INT_MIN THEN a ELSE a % Abs(b)

\* lines 182-187
CcOpenVideo ==
  /\ cc_pc = "cc_open_video"
  /\ skip_frames' \in SkipFramesOutcomes(fps)
  /\ cc_pc' = "cc_frames"
  /\ UNCHANGED <<ctVars, charucoVars, ccEnv, ccLoopVars, ids_to_remove, ccOutVars,
                 cc_messages>>

\* lines 299-304 (variant: only the pose saved last is compared)
TakeImageLastOnly(position, poses) ==
  \/ poses = <<>>
  \/ LET q == poses[Len(poses)]
     IN  (position[1] - q[1]) * (position[1] - q[1])
           + (position[2] - q[2]) * (position[2] - q[2])
         >= FLAGS_grid_size * FLAGS_grid_size

\* lines 299-304: take_image, false when some saved pose is closer than
\* FLAGS_grid_size
TakeImage(position, poses) ==
  \A i \in 1..Len(poses) :
    LET q == poses[i]
    IN  (position[1] - q[1]) * (position[1] - q[1])
          + (position[2] - q[2]) * (position[2] - q[2])
        >= FLAGS_grid_size * FLAGS_grid_size

\* lines 196-201 (variant: a successful read starts the count again)
CntWrongAfterReset(cnt_wrong, ok) == IF ok THEN 0 ELSE cnt_wrong + 1

\* lines 196-201: cnt_wrong++ on a failed read, and no other assignment
CntWrongAfter(cnt_wrong, ok) == IF ok THEN cnt_wrong ELSE cnt_wrong + 1

\* the frame the next inputVideo.read() yields
CcNextRead ==
  IF cc_reads < Len(calibVideo) THEN calibVideo[cc_reads + 1] ELSE CalibFailedRead

CcViewNames == {cc_recon_calib_dataset[i].name : i \in 1..Len(cc_recon_calib_dataset)}

\* lines 194-391, one iteration of while (true)
CcFrameLoop ==
  /\ cc_pc = "cc_frames"
  /\ LET e == CcNextRead
         timestamp == to_string(e.pos)
         outcome ==
           IF ~e.ok
             THEN (IF CntWrongAfter(cc_cnt_wrong, e.ok) > MaxCntWrongCalib
                     THEN "break" ELSE "continue")
           ELSE IF skip_frames = 0 THEN "crash_207"
           ELSE IF CRem(cc_frame_cnt + 1, skip_frames) # 0 THEN "continue"
           ELSE IF Cardinality(e.charucoIds) < cc_min_number_detected_corners
             THEN "continue"
           ELSE IF FLAGS_camera_model_to_calibrate \notin LoopModels THEN "return"
           ELSE IF ~TakeImage(e.position, saved_poses) THEN "continue"
           ELSE IF ~e.success_init THEN "continue"
           ELSE IF 10 * e.inliers < 6 * Cardinality(e.charucoIds) THEN "continue"
           ELSE IF timestamp \in CcViewNames THEN "crash_316"
           ELSE IF e.key = ESC THEN "accept_break"
           ELSE "accept"
         saved == outcome \in {"crash_316", "accept", "accept_break"}
         added == outcome \in {"accept", "accept_break"}
     IN  /\ cc_reads' = IF cc_reads < Len(calibVideo) THEN cc_reads + 1 ELSE cc_reads
         /\ cc_cnt_wrong' = CntWrongAfter(cc_cnt_wrong, e.ok)
         /\ cc_frame_cnt' = IF e.ok THEN cc_frame_cnt + 1 ELSE cc_frame_cnt
         /\ saved_poses' = IF saved THEN Append(saved_poses, e.position) ELSE saved_poses
         /\ cc_recon_calib_dataset' =
              IF added
                THEN Append(cc_recon_calib_dataset,
                            [id |-> cc_next_view_id, name |-> timestamp,
                             position |-> e.position,
                             type |-> ModelTypeOf(FLAGS_camera_model_to_calibrate)])
                ELSE cc_recon_calib_dataset
         /\ cc_next_view_id' = IF added THEN cc_next_view_id + 1 ELSE cc_next_view_id
         /\ ids_to_remove_after_init' =
              IF added /\ e.init_reproj_error > MaxReprojError
                THEN ids_to_remove_after_init \cup {cc_next_view_id}
                ELSE ids_to_remove_after_init
         /\ cc_messages' =
              IF outcome = "return"
                THEN cc_messages \cup {"THIS CAMERA MODEL DOES NOT EXIST"}
                ELSE cc_messages
         /\ cc_pc' = CASE outcome \in {"continue", "accept"} -> "cc_frames"
                       [] outcome \in {"break", "accept_break"} -> "cc_check_views"
                       [] outcome = "return" -> "cc_returned"
                       [] outcome = "crash_207" -> "cc_crashed_207"
                       [] outcome = "crash_316" -> "cc_crashed_316"
  /\ UNCHANGED <<ctVars, charucoVars, ccEnv, skip_frames, ids_to_remove, ccOutVars>>

\* NumViews()
NumViews(recon) == Len(recon)

\* lines 393-396 (variant: any number of views is enough)
EnoughViewsAlways(recon, least) == NumViews(recon) >= 0

\* lines 393-396 and 441-444: the negation of NumViews() < least
EnoughViews(recon, least) == ~(NumViews(recon) < least)

\* lines 393-414: return 0 with fewer than 10 views, else bundle adjustment
CcCheckEnoughViews ==
  /\ cc_pc = "cc_check_views"
  /\ cc_pc' = IF EnoughViews(cc_recon_calib_dataset, MinViewsAccepted)
                THEN "cc_remove_views" ELSE "cc_returned"
  /\ cc_messages' =
       IF EnoughViews(cc_recon_calib_dataset, MinViewsAccepted) THEN cc_messages
       ELSE cc_messages \cup {"Not enough views left for proper calibration!"}
  /\ UNCHANGED <<ctVars, charucoVars, ccEnv, ccLoopVars, skip_frames, ids_to_remove,
                 ccOutVars>>

\* RemoveView for every id of a set
RemoveViews(recon, ids) == SelectSeq(recon, LAMBDA v : v.id \notin ids)

\* lines 416-439: the views whose reprojection error after bundle adjustment
\* exceeds 10 (any of them may) are removed; second bundle adjustment
CcRemoveHighErrorViews ==
  /\ cc_pc = "cc_remove_views"
  /\ \E high \in SUBSET {cc_recon_calib_dataset[i].id : i \in 1..Len(cc_recon_calib_dataset)} :
       /\ ids_to_remove' = high
       /\ cc_recon_calib_dataset' = RemoveViews(cc_recon_calib_dataset, high)
  /\ cc_pc' = "cc_check_views_left"
  /\ UNCHANGED <<ctVars, charucoVars, ccEnv, cc_reads, cc_cnt_wrong, cc_frame_cnt,
                 saved_poses, cc_next_view_id, ids_to_remove_after_init, skip_frames,
                 ccOutVars, cc_messages>>

\* lines 441-448: return 0 with fewer than 8 views, else bundle adjustment again
CcCheckEnoughViewsLeft ==
  /\ cc_pc = "cc_check_views_left"
  /\ cc_pc' = IF EnoughViews(cc_recon_calib_dataset, MinViewsLeft)
                THEN "cc_output_str" ELSE "cc_returned"
  /\ cc_messages' =
       IF EnoughViews(cc_recon_calib_dataset, MinViewsLeft) THEN cc_messages
       ELSE cc_messages \cup {"Not enough views left for proper calibration!"}
  /\ UNCHANGED <<ctVars, charucoVars, ccEnv, ccLoopVars, skip_frames, ids_to_remove,
                 ccOutVars>>

\* lines 450-460, without the directory and the size suffix
OutputStem(model) ==
  IF model = "DOUBLE_SPHERE" THEN "camera_calibration_ds_"
  ELSE IF model = "DIVISION_UNDISTORTION" THEN "camera_calibration_div_"
  ELSE IF model = "PINHOLE" THEN "camera_calibration_ph_"
  ELSE ""

\* lines 450-460
CcOutputStr ==
  /\ cc_pc = "cc_output_str"
  /\ output_str' = OutputStem(FLAGS_camera_model_to_calibrate)
  /\ cc_pc' = "cc_write_reconstruction"
  /\ UNCHANGED <<ctVars, charucoVars, ccEnv, ccLoopVars, skip_frames, ids_to_remove,
                 written, json, cc_messages>>

\* line 462
CcWriteReconstruction ==
  /\ cc_pc = "cc_write_reconstruction"
  /\ written' = Append(written, [file |-> output_str \o ".calibdata",
                                 views |-> NumViews(cc_recon_calib_dataset)])
  /\ cc_pc' = "cc_write_json"
  /\ UNCHANGED <<ctVars, charucoVars, ccEnv, ccLoopVars, skip_frames, ids_to_remove,
                 output_str, json, cc_messages>>

\* lines 494-520: json["intrinsic_type"]["camera_type"]
CameraTypeEntry(model) ==
  IF model = "LINEAR_PINHOLE"
    THEN CameraIDToString(CameraIntrinsicsModelType.PINHOLE)
  ELSE IF model = "DIVISION_UNDISTORTION"
    THEN CameraIDToString(CameraIntrinsicsModelType.DIVISION_UNDISTORTION)
  ELSE IF model = "DOUBLE_SPHERE"
    THEN CameraIDToString(CameraIntrinsicsModelType.DOUBLE_SPHERE)
  ELSE "null"

\* lines 463-524
CcWriteJson ==
  /\ cc_pc = "cc_write_json"
  /\ json' = [nr_images_used |-> NumViews(cc_recon_calib_dataset),
              camera_type |-> CameraTypeEntry(FLAGS_camera_model_to_calibrate)]
  /\ written' = Append(written, [file |-> output_str \o ".json",
                                 views |-> NumViews(cc_recon_calib_dataset)])
  /\ cc_pc' = "cc_done"
  /\ UNCHANGED <<ctVars, charucoVars, ccEnv, ccLoopVars, skip_frames, ids_to_remove,
                 output_str, cc_messages>>

NextCalib ==
  \/ CcReadDetectorParameters
  \/ CcOpenVideo
  \/ CcFrameLoop
  \/ CcCheckEnoughViews
  \/ CcRemoveHighErrorViews
  \/ CcCheckEnoughViewsLeft
  \/ CcOutputStr
  \/ CcWriteReconstruction
  \/ CcWriteJson

\* ---------------------------------------------------------- specifications
\* The program is the same in every specification; they differ in the set of
\* input artifacts Init draws from, each wide in the inputs its properties
\* depend on.
A1 == <<1, 2>>
A2 == <<3, 1>>
G1 == <<2, 1>>
Bias1 == [accl |-> <<1, 0>>, gyro |-> <<0, 1>>]
Align(r, off) == [rot |-> r, time_offset |-> off]
Weight(so3, r3) == [dt_so3 |-> so3, dt_r3 |-> r3]

SortedSeqsUpTo(S, n) == {s \in SeqsUpTo(S, n) : IsSorted(s)}

\* every artifact may be missing; small data, degenerate inputs included
Init ==
  InitWith(SUBSET Artifacts,
           {Bias1},
           SeqsUpTo({View(0, 0), View(1000, 1)}, MaxViews),
           SortedSeqsUpTo({Accl(0, A1), Accl(1, A1)}, MaxAccel),
           SeqsUpTo({Gyro(0, G1)}, MaxGyro),
           {Align(1, 0)},
           {Weight(1000, 2000), Weight(0, 1000)},
           {1000000})
  /\ CharucoIdle
  /\ CalibIdle

Spec == Init /\ [][Next]_vars

\* gravity seeding: views in any storage order with differing orientations,
\* accelerometer samples near and far from the poses
InitGravity ==
  InitWith({{}},
           {Bias1},
           SeqsUpTo({View(t, r) : t \in {0, 1000, 2000}, r \in {0, 1}}, MaxViews),
           SortedSeqsUpTo({Accl(0, A1), Accl(1, A2), Accl(5, A1)}, MaxAccel),
           {<<>>},
           {Align(0, 0), Align(1, 0)},
           {Weight(1000, 1000)},
           {1000000})
  /\ CharucoIdle
  /\ CalibIdle

SpecGravity == InitGravity /\ [][Next]_vars

\* the time window: poses and samples at, inside and outside [t0, tend]
InitWindow ==
  InitWith({{}},
           {Bias1},
           SeqsUpTo({View(t, 0) : t \in {0, 1000, 2000}}, MaxViews),
           SortedSeqsUpTo({Accl(t, A1) : t \in {0, 1, 2}}, MaxAccel),
           SortedSeqsUpTo({Gyro(t, G1) : t \in {0, 1}}, MaxGyro),
           {Align(0, 0), Align(0, 1000)},
           {Weight(1000, 1000)},
           {500})
  /\ CharucoIdle
  /\ CalibIdle

SpecWindow == InitWindow /\ [][Next]_vars

\* knot allocation: durations that are and are not multiples of the spacing
InitKnots ==
  InitWith({{}},
           {Bias1},
           SeqsUpTo({View(t, 0) : t \in {0, 1000, 2000, 5000}}, MaxViews),
           {<<Accl(0, A1), Accl(1, A1)>>},
           {<<>>},
           {Align(0, 0)},
           {Weight(a, b) : a, b \in {1000, 2000, 3000}},
           {1000000})
  /\ CharucoIdle
  /\ CalibIdle

SpecKnots == InitKnots /\ [][Next]_vars

\* the continuous-time application is not run
CtIdle ==
  InitWith({{}}, {Bias1}, {<<>>}, {<<>>}, {<<>>}, {Align(0, 0)}, {Weight(1000, 1000)},
           {1000000})

\* create_imu_camera_charuco: videos of frames at advancing positions (0, 100,
\* 150, 150.0004, 200 and 300 ms), each with 30 corners, 30 other corners or 29
IdsA == 0..29
IdsB == 1..30
IdsFew == 0..28
Positions == {0, 1000000, 1500000, 1500004, 2000000, 3000000}
Frames == {Frame(p, ids) : p \in Positions, ids \in {IdsA, IdsB, IdsFew}}
Follows(v, f) == v = <<>> \/ v[Len(v)].pos < f.pos

RECURSIVE AdvancingVideos(_)
AdvancingVideos(n) ==
  IF n = 0 THEN {<<>>}
  ELSE LET shorter == AdvancingVideos(n - 1) IN
         shorter \cup {Append(x[1], x[2]) :
                         x \in {y \in shorter \X Frames :
                                  Len(y[1]) = n - 1 /\ Follows(y[1], y[2])}}

InitCharuco ==
  /\ CtIdle
  /\ CalibIdle
  /\ CharucoInitWith(AdvancingVideos(MaxFrames))

SpecCharuco == InitCharuco /\ [][NextCharuco]_vars

\* ---- calibrate_camera: the videos and models of the check
MaxCalibFrames == 3
MaxLongFrames == 11

\* the kinds of frame: unreadable; too few corners; pose initialisation
\* failed; too few inliers (17 of 30); accepted at the origin; 5 cm from it
\* with a high initial error; exactly FLAGS_grid_size from it; at the origin
\* with ESC pressed
FrameKinds ==
  {CalibFailedRead,
   CalibFrame(0, IdsFew, TRUE, <<0, 0>>, 29, 5, 0),
   CalibFrame(0, IdsA, FALSE, <<50, 50>>, 30, 5, 0),
   CalibFrame(0, IdsA, TRUE, <<50, 50>>, 17, 5, 0),
   CalibFrame(0, IdsA, TRUE, <<0, 0>>, 18, 5, 0),
   CalibFrame(0, IdsA, TRUE, <<3, 4>>, 30, 15, 0),
   CalibFrame(0, IdsA, TRUE, <<6, 0>>, 30, 5, 0),
   CalibFrame(0, IdsA, TRUE, <<0, 0>>, 30, 5, ESC)}

\* a frame far from every other, with ESC pressed
ClosingFrame == CalibFrame(0, IdsA, TRUE, <<100, 100>>, 30, 5, ESC)

\* frames are 40 ms apart (400000 in units of 0.1 us)
Stamp(v) == [i \in 1..Len(v) |-> [v[i] EXCEPT !.pos = i * 400000]]

RECURSIVE Bodies(_)
Bodies(n) ==
  IF n = 0 THEN {<<>>}
  ELSE LET shorter == Bodies(n - 1)
       IN  shorter \cup {Append(b, k) : b \in {x \in shorter : Len(x) = n - 1},
                                        k \in FrameKinds}

\* videos of up to n frames of any kind, then the closing frame
ClosedVideos(n) == {Stamp(Append(b, ClosingFrame)) : b \in Bodies(n)}

\* videos that end without ESC; the last has two frames whose timestamps
\* agree to the microsecond
OpenVideos ==
  {<<>>,
   Stamp(<<CalibFrame(0, IdsA, TRUE, <<0, 0>>, 30, 5, 0)>>),
   <<CalibFrame(400000, IdsA, TRUE, <<0, 0>>, 30, 5, 0),
     CalibFrame(400004, IdsA, TRUE, <<20, 0>>, 30, 5, 0)>>}

\* n frames 10 cm apart, all accepted, the second with a high initial error,
\* ESC pressed at the last
LongVideo(n) ==
  Stamp([i \in 1..n |->
           CalibFrame(0, IdsA, TRUE, <<10 * i, 0>>, 30,
                      IF i = 2 THEN 15 ELSE 5, IF i = n THEN ESC ELSE 0)])
LongVideos(n) == {LongVideo(k) : k \in (MinViewsAccepted - 1)..n}

\* the videos with the frame rate they report; one that could not be opened
\* and one that plays report 0
CalibVideos ==
  ((ClosedVideos(MaxCalibFrames) \cup OpenVideos \cup LongVideos(MaxLongFrames))
     \X {30})
  \cup {<<(<<>>), 0>>, <<LongVideo(MinViewsAccepted), 0>>}

CalibModels == {"LINEAR_PINHOLE", "DIVISION_UNDISTORTION", "DOUBLE_SPHERE", "PINHOLE"}

InitCalib ==
  /\ CtIdle
  /\ CharucoIdle
  /\ CalibInitWith(CalibVideos, CalibModels)

SpecCalib == InitCalib /\ [][NextCalib]_vars

\* ---- both frame loops: create_imu_camera_charuco is run, and when it has
\* ended calibrate_camera is run
ChEnded ==
  ch_pc \in {"ch_aborted", "ch_returned", "ch_done", "ch_crashed_191",
             "ch_crashed_223", "ch_crashed_289"}

\* an empty video, one with too few corners, and one with failed reads
\* between its frames
FrameLoopCharucoVideos ==
  {<<>>,
   <<Frame(0, IdsFew)>>,
   <<FailedRead, Frame(0, IdsA), FailedRead, Frame(1000000, IdsA), Frame(3000000, IdsA)>>}

\* a video that could not be opened, one that plays but reports 0 frames per
\* second, one with a failed read before its frames and no ESC, and one that
\* yields enough views
FrameLoopCalibVideos ==
  {<<(<<>>), 0>>,
   <<Stamp(<<CalibFrame(0, IdsA, TRUE, <<0, 0>>, 30, 5, 0)>>), 0>>,
   <<Stamp(<<CalibFailedRead, CalibFrame(0, IdsA, TRUE, <<0, 0>>, 30, 5, 0),
             CalibFailedRead, CalibFrame(0, IdsA, TRUE, <<20, 0>>, 30, 5, 0)>>), 30>>,
   <<LongVideo(MinViewsAccepted), 30>>}

InitFrameLoops ==
  /\ CtIdle
  /\ CharucoInitWith(FrameLoopCharucoVideos)
  /\ CalibInitWith(FrameLoopCalibVideos, {"DOUBLE_SPHERE", "PINHOLE"})

NextFrameLoops ==
  \/ NextCharuco
  \/ ChEnded /\ CcReadDetectorParameters
  \/ ChEnded /\ CcOpenVideo
  \/ ChEnded /\ CcFrameLoop
  \/ ChEnded /\ CcCheckEnoughViews
  \/ ChEnded /\ CcRemoveHighErrorViews
  \/ ChEnded /\ CcCheckEnoughViewsLeft
  \/ ChEnded /\ CcOutputStr
  \/ ChEnded /\ CcWriteReconstruction
  \/ ChEnded /\ CcWriteJson

\* an iteration of a loop that can run is eventually run
SpecFrameLoops ==
  /\ InitFrameLoops
  /\ [][NextFrameLoops]_vars
  /\ WF_vars(ChFrameLoop)
  /\ WF_vars(CcFrameLoop)

\* -------------------------------------------------------------- properties
acc == telemetry_data.accelerometer
gyr == telemetry_data.gyroscope

\* positions after the gravity scan (lines 143-170) has ended
ScanDone ==
  pc \in {"set_g", "init_spline", "add_corners", "add_accel", "add_gyro",
          "optimize", "optimizing", "mean_reproj", "print", "done",
          "terminated", "crashed_174", "crashed_177"}

\* positions after the three registration loops (lines 196-241) have ended
RegistrationDone ==
  pc \in {"optimize", "optimizing", "mean_reproj", "print", "done"}

\* positions after t0 and tend were derived (lines 106-108)
PastMinMax ==
  pc \in {"crashed_107", "construct_spline", "ingest_poses", "gravity", "set_g",
          "init_spline", "add_corners", "add_accel", "add_gyro", "optimize",
          "optimizing", "mean_reproj", "print", "done", "terminated",
          "crashed_174", "crashed_177"}

\* inputs on which no read of main() is out of bounds: at least one view
\* (lines 107-108, 174) and at least two accelerometer samples (lines 90-91)
ReadsInBounds == calib_dataset # <<>> /\ Len(acc) >= 2

\* a sample's time in the pose time base, as at registration:
\* (timestamp_ms / 1000 + time offset) seconds, in nanoseconds
TrueSampleNs(s) == (s.timestamp_ms * 1000 + time_offset_imu_to_cam) * 1000

\* sample i lies within 3 ms of the ingested pose with key k
SampleNearPose(i, k) == Abs(TrueSampleNs(acc[i]) - k) < 3000000

SampleInSomeWindow ==
  \E k \in DOMAIN calib_init_poses : \E i \in 1..Len(acc) : SampleNearPose(i, k)

\* C1 (as claimed): when the gravity scan has ended and no accelerometer
\* sample lies within 3 ms of any ingested pose, the run has failed: no
\* gravity was handed to the estimator by setG and the estimator was never
\* initialised or optimised.  (Stated for inputs whose reads are in bounds
\* and with at least one ingested pose.)
C1_NoSampleNoGravity ==
  (ScanDone /\ ReadsInBounds /\ DOMAIN calib_init_poses # {} /\ ~SampleInSomeWindow) =>
    /\ ~calib_spline.g_set
    /\ calib_spline.state \in {"None", "Uninitialized"}

\* C2 (as claimed): once the knots are initialised with dt > 0, each spline has
\* ceil((end_t - start_t) / dt) + N knots.  (Stated for inputs whose reads
\* are in bounds.)
KnotsInitialised == calib_spline.state \notin {"None", "Uninitialized"}

C2_KnotsAreCeilPlusOrder ==
  (KnotsInitialised /\ ReadsInBounds /\ dt_so3_ns > 0 /\ dt_r3_ns > 0) =>
    /\ calib_spline.num_knots_so3 = Ceil(end_t_ns - start_t_ns, dt_so3_ns) + N
    /\ calib_spline.num_knots_r3 = Ceil(end_t_ns - start_t_ns, dt_r3_ns) + N

\* C2 (amended): once the knots are initialised with dt > 0, each spline has
\* floor((end_t_ns - start_t_ns) / dt_ns) + N knots: the ceil formula when the
\* duration is a multiple of dt, one knot less when it is not.
KnotsFloor(dt_ns, n) ==
  LET d == end_t_ns - start_t_ns IN
    /\ n = (d \div dt_ns) + N
    /\ (d % dt_ns = 0) => n = Ceil(d, dt_ns) + N
    /\ (d % dt_ns # 0) => n = Ceil(d, dt_ns) + N - 1

C2_KnotsAreFloorPlusOrder ==
  (KnotsInitialised /\ dt_so3_ns > 0 /\ dt_r3_ns > 0) =>
    /\ KnotsFloor(dt_so3_ns, calib_spline.num_knots_so3)
    /\ KnotsFloor(dt_r3_ns, calib_spline.num_knots_r3)

\* C2 witness: knots initialised for a duration that is not a multiple of
\* dt_so3 and is a multiple of dt_r3
C2_Witness ==
  /\ KnotsInitialised
  /\ dt_so3_ns > 0 /\ dt_r3_ns > 0
  /\ (end_t_ns - start_t_ns) % dt_so3_ns # 0
  /\ (end_t_ns - start_t_ns) \div dt_so3_ns > 0
  /\ (end_t_ns - start_t_ns) % dt_r3_ns = 0

\* smallest and largest pose timestamp of the reconstruction
ViewTimes == {calib_dataset[i].timestamp : i \in 1..Len(calib_dataset)}
TMin == CHOOSE x \in ViewTimes : \A y \in ViewTimes : x <= y
TMax == CHOOSE x \in ViewTimes : \A y \in ViewTimes : x >= y

TimesOf(ms) == [i \in 1..Len(ms) |-> ms[i].t]

InClosedWindow(s) ==
  TMin * 1000 <= TrueSampleNs(s) /\ TrueSampleNs(s) <= TMax * 1000
InHalfOpenWindow(s) ==
  TMin * 1000 <= TrueSampleNs(s) /\ TrueSampleNs(s) < TMax * 1000

TimesIn(kept) == [i \in 1..Len(kept) |-> TrueSampleNs(kept[i])]
ClosedTimes(samples) == TimesIn(SelectSeq(samples, InClosedWindow))
HalfOpenTimes(samples) == TimesIn(SelectSeq(samples, InHalfOpenWindow))

\* C3 (as claimed): after registration, the registered corner, accelerometer
\* and gyroscope measurements are exactly the poses and samples in the closed
\* interval [t0, tend], t0 and tend the smallest and largest pose timestamp.
\* (Stated for inputs whose reads are in bounds.)
C3_ClosedWindowRegistered ==
  (RegistrationDone /\ ReadsInBounds) =>
    /\ calib_spline.corners =
         {ts * 1000 : ts \in {x \in ViewTimes : TMin <= x /\ x <= TMax}}
    /\ TimesOf(calib_spline.accel) = ClosedTimes(acc)
    /\ TimesOf(calib_spline.gyro) = ClosedTimes(gyr)

\* C3 (amended): nothing outside the half-open interval [t0, tend) is ever
\* ingested or registered, and after registration the registered measurements
\* are exactly the poses and samples in [t0, tend): the pose at tend and a
\* sample at exactly tend are discarded.
C3_HalfOpenWindowRegistered ==
  /\ \A k \in calib_spline.corners : start_t_ns <= k /\ k < end_t_ns
  /\ \A i \in 1..Len(calib_spline.accel) :
       start_t_ns <= calib_spline.accel[i].t /\ calib_spline.accel[i].t < end_t_ns
  /\ \A i \in 1..Len(calib_spline.gyro) :
       start_t_ns <= calib_spline.gyro[i].t /\ calib_spline.gyro[i].t < end_t_ns
  /\ ((pc = "gravity" \/ ScanDone) /\ ViewTimes # {}) =>
       /\ t0 = TMin /\ tend = TMax
       /\ calib_corners =
            {ts * 1000 : ts \in {x \in ViewTimes : TMin <= x /\ x < TMax}}
  /\ RegistrationDone =>
       /\ calib_spline.corners = calib_corners
       /\ TimesOf(calib_spline.accel) = HalfOpenTimes(acc)
       /\ TimesOf(calib_spline.gyro) = HalfOpenTimes(gyr)

\* C3 witness: registration has run with a non-zero time offset, the pose at
\* t0 registered, an accelerometer and a gyroscope sample at exactly tend
\* dropped, and an accelerometer sample inside registered
C3_Witness ==
  /\ RegistrationDone
  /\ time_offset_imu_to_cam # 0
  /\ start_t_ns \in calib_spline.corners
  /\ \E i \in 1..Len(acc) : TrueSampleNs(acc[i]) = end_t_ns
  /\ \E i \in 1..Len(gyr) : TrueSampleNs(gyr[i]) = end_t_ns
  /\ calib_spline.accel # <<>>
  /\ calib_spline.gyro = <<>>

\* C4 (as claimed): when the gravity scan has ended and some accelerometer
\* sample, its millisecond timestamp converted as at registration, lies within
\* 3 ms of an ingested pose, gravity is seeded.  (Stated for inputs whose
\* reads are in bounds.)
C4_SeedsWhenSampleInWindow ==
  (ScanDone /\ ReadsInBounds /\ SampleInSomeWindow) => g_initialized

\* the rotation T_a_c * T_i_c_init^-1 of a view, from the view's orientation
\* and the initial alignment
PoseRot(v) == ((4 - v.rot) + imu2cam) % 4

ViewIngested(v) == TMin <= v.timestamp /\ v.timestamp < TMax

\* g_a_init is the vector val(i) of a sample i matched to an ingested view,
\* rotated by that view's PoseRot
SeedFrom(val) ==
  \E k \in DOMAIN calib_init_poses : \E i \in SeedMatches(k) :
    \E n \in 1..Len(calib_dataset) :
      /\ ViewIngested(calib_dataset[n])
      /\ calib_dataset[n].timestamp * 1000 = k
      /\ g_a_init = RotApply(PoseRot(calib_dataset[n]), val[i])

RawReading == [i \in 1..Len(acc) |-> acc[i].acc_masurement]
BiasedReading ==
  [i \in 1..Len(acc) |->
     <<acc[i].acc_masurement[1] + accl_bias[1], acc[i].acc_masurement[2] + accl_bias[2]>>]

\* C5 (as claimed): a seeded gravity estimate is the raw reading of a matched
\* sample rotated by the matched pose's orientation, and it is what setG hands
\* to the estimator.  (Stated for inputs whose reads are in bounds.)
C5_GravityIsRotatedRawSample ==
  /\ (g_initialized /\ ReadsInBounds) => SeedFrom(RawReading)
  /\ (g_initialized /\ calib_spline.g_set) => calib_spline.g = g_a_init

\* C5 (amended): a seeded gravity estimate is the matched sample's reading plus
\* the accelerometer bias of the bias artifact, rotated by the matched pose's
\* orientation, and it is what setG hands to the estimator.
C5_GravityIsRotatedBiasedSample ==
  /\ g_initialized => SeedFrom(BiasedReading)
  /\ (g_initialized /\ calib_spline.g_set) => calib_spline.g = g_a_init

\* C5 witness: gravity was seeded with a non-zero bias and a rotating pose,
\* and handed to the estimator
C5_Witness ==
  /\ g_initialized
  /\ calib_spline.g_set
  /\ accl_bias # <<0, 0>>
  /\ g_a_init \notin {BiasedReading[i] : i \in 1..Len(acc)}

\* the ingested poses that have a sample in the window the scan tests
UsablePoses == {k \in DOMAIN calib_init_poses : SeedMatches(k) # {}}

\* C6 (as claimed): a seeded gravity estimate comes from the usable pose with
\* the smallest timestamp, whatever the storage order of the views.  (Stated
\* for inputs whose reads are in bounds.)
C6_SeedsFromEarliestUsablePose ==
  (g_initialized /\ ReadsInBounds) =>
    LET k == CHOOSE x \in UsablePoses : \A y \in UsablePoses : x <= y IN
      g_a_init = RotApply(T_a_i(calib_init_poses[k]), Ad(FirstOf(SeedMatches(k))))

\* C7 (as claimed): no registered measurement lies more than max_t seconds
\* after the trajectory start.  (Stated for inputs whose reads are in
\* bounds.)
C7_NothingBeyondMaxT ==
  LET limit == start_t_ns + FLAGS_max_t * 1000 IN
    ReadsInBounds =>
    /\ \A k \in calib_spline.corners : k <= limit
    /\ \A i \in 1..Len(calib_spline.accel) : calib_spline.accel[i].t <= limit
    /\ \A i \in 1..Len(calib_spline.gyro) : calib_spline.gyro[i].t <= limit

\* the reads in program order and the artifact each one checks
ReadPcs ==
  <<"read_bias", "read_reconstruction", "read_telemetry", "read_imu2cam",
    "check_sew_flag", "read_sew">>
CheckedArtifact ==
  <<"imu_bias", "reconstruction", "telemetry", "imu2cam", "sew_flag", "sew">>

\* C8: if any input artifact is missing or unreadable, the run never gets past
\* the check of that artifact except by aborting with a report: the spline is
\* never constructed, nothing is registered, Optimize and MeanReprojection
\* are not run, nothing is printed.
C8_UnreadableArtifactAborts ==
  files.unreadable # {} =>
    /\ calib_spline = NoSpline
    /\ mean_reproj = "unset"
    /\ ~printed
    /\ \/ pc = "aborted" /\ report # ""
       \/ \E n \in 1..6 :
            /\ pc = ReadPcs[n]
            /\ \A m \in 1..6 : CheckedArtifact[m] \in files.unreadable => n <= m

\* C8 witness: the run aborted on the last artifact, with the others read
C8_Witness ==
  /\ pc = "aborted"
  /\ files.unreadable = {"sew"}
  /\ report = "Could not open spline_error_weighting_json"
  /\ calib_dataset # <<>>

\* C9 (as claimed): the program gets past the derivation of t0 and tend only
\* with a non-empty timestamp list; an empty pose set is rejected before.
C9_EmptyPoseSetRejected == PastMinMax => timestamps # <<>>

\* C10: meanReprojection has run only when Optimize has returned (Converged or
\* Failed); it has not run while the estimator is unconstructed,
\* Uninitialized, Seeded or Optimizing.
C10_MeanReprojectionAfterOptimize ==
  mean_reproj = "computed" => calib_spline.state \in {"Converged", "Failed"}

\* C10 witness: meanReprojection ran after a failed Optimize
C10_Witness == mean_reproj = "computed" /\ calib_spline.state = "Failed"

\* the measurements the estimator holds
Registered == <<calib_spline.corners, calib_spline.accel, calib_spline.gyro>>
NothingRegistered == Registered = <<{}, <<>>, <<>>>>

\* optimize() has been entered
OptimizeEntered == calib_spline.state \in {"Optimizing", "Converged", "Failed"}

\* everything lines 196-241 register from the materialised inputs
AllRegistered ==
  /\ calib_spline.corners = {k \in calib_corners : CornerInRange(k)}
  /\ Len(calib_spline.accel) = Len(SelectSeq(acc, AccelKept))
  /\ Len(calib_spline.gyro) = Len(SelectSeq(gyr, GyroKept))

\* C11: build-then-freeze ordering of one run.  While any measurement is
\* registered the extrinsic seed (setT_i_c), the gravity seed (setG) and the
\* knot initialisation (init) have happened; a measurement is registered only
\* while the estimator is Seeded, never once optimize() has been entered; when
\* optimize() is entered every corner, accelerometer and gyroscope measurement
\* of the window is registered; optimize() is entered only from Seeded, at
\* line 244, never again after it returned, and it has returned before the
\* results are read.
C11_BuildThenFreeze ==
  /\ [](~NothingRegistered =>
         /\ calib_spline.T_i_c = T_i_c_init
         /\ calib_spline.g_set
         /\ calib_spline.state \notin {"None", "Uninitialized"})
  /\ [](OptimizeEntered => AllRegistered)
  /\ [](pc \in {"mean_reproj", "print", "done"} =>
         calib_spline.state \in {"Converged", "Failed"})
  /\ [][Registered' # Registered =>
          calib_spline.state = "Seeded" /\ calib_spline'.state = "Seeded"]_vars
  /\ [][(calib_spline'.state = "Optimizing" /\ calib_spline.state # "Optimizing") =>
          calib_spline.state = "Seeded" /\ pc = "optimize"]_vars
  /\ [][calib_spline.state \in {"Converged", "Failed"} =>
          calib_spline'.state = calib_spline.state]_vars

\* C11 witness: a finished run in which corners, accelerometer and gyroscope
\* measurements were all registered and optimize() converged
C11_Witness ==
  /\ pc = "done"
  /\ calib_spline.state = "Converged"
  /\ calib_spline.corners # {}
  /\ calib_spline.accel # <<>>
  /\ calib_spline.gyro # <<>>

ValuesOf(ms) == [i \in 1..Len(ms) |-> ms[i].value]

\* the readings of the samples in [t0, tend), in file order
RawAccelIn == [i \in 1..Len(SelectSeq(acc, InHalfOpenWindow)) |->
                 SelectSeq(acc, InHalfOpenWindow)[i].acc_masurement]
RawGyroIn == [i \in 1..Len(SelectSeq(gyr, InHalfOpenWindow)) |->
                SelectSeq(gyr, InHalfOpenWindow)[i].gyro_measurement]

PlusBias(readings, bias) ==
  [i \in 1..Len(readings) |-> <<readings[i][1] + bias[1], readings[i][2] + bias[2]>>]

\* C12 (as claimed): after registration every registered accelerometer and
\* gyroscope measurement holds the raw reading of its sample, the biases of
\* the bias artifact not folded in.  (Stated for inputs whose reads are in
\* bounds.)
C12_RegisteredValuesAreRaw ==
  (RegistrationDone /\ ReadsInBounds) =>
    /\ ValuesOf(calib_spline.accel) = RawAccelIn
    /\ ValuesOf(calib_spline.gyro) = RawGyroIn

\* C12 (amended): after registration every registered accelerometer
\* measurement holds its sample's reading plus the accelerometer bias of the
\* bias artifact, and every registered gyroscope measurement its sample's
\* reading plus the gyroscope bias.
C12_RegisteredValuesAreBiased ==
  RegistrationDone =>
    /\ ValuesOf(calib_spline.accel) = PlusBias(RawAccelIn, accl_bias)
    /\ ValuesOf(calib_spline.gyro) = PlusBias(RawGyroIn, gyro_bias)

\* C12 witness: accelerometer and gyroscope measurements were registered with
\* non-zero biases
C12_Witness ==
  /\ RegistrationDone
  /\ calib_spline.accel # <<>>
  /\ calib_spline.gyro # <<>>
  /\ accl_bias # <<0, 0>>
  /\ gyro_bias # <<0, 0>>

\* optimize() has returned
OptimizeReturned == calib_spline.state \in {"Converged", "Failed"}

AfterFirstExtend == ch_pc \in {"ch_measurements", "ch_extend"}
\* positions after the second ExtendTo (lines 333-336)
AfterSecondExtend == ch_pc \in {"ch_solve", "ch_done"}

\* the target of the second ExtendTo: std::max(t0, tend + 0.1)
SecondTarget == IF ch_t0 >= ch_tend + 100000 THEN ch_t0 ELSE ch_tend + 100000

\* C14: ExtendTo is idempotent.  On the R3 and the SO3 spline as an ExtendTo
\* of main() left them, one more ExtendTo with the same target time (whatever
\* its fill value) leaves the knot count and every knot as they are.
C14_ExtendToIdempotent ==
  /\ AfterFirstExtend =>
       /\ ExtendTo(r3_traj_spline, ch_tend, 1) = r3_traj_spline
       /\ ExtendTo(so3_traj_spline, ch_tend, 1) = so3_traj_spline
  /\ AfterSecondExtend =>
       /\ ExtendTo(r3_traj_spline, SecondTarget, 1) = r3_traj_spline
       /\ ExtendTo(so3_traj_spline, SecondTarget, 1) = so3_traj_spline

\* C14 witness: the splines were extended to a tend that needs more knots
\* than the fewest a spline holds, and then once more past tend
C14_Witness ==
  /\ AfterSecondExtend
  /\ ch_tend >= 3 * dt_r3
  /\ Len(r3_traj_spline.knots) > N + 3
  /\ Len(so3_traj_spline.knots) > N + 3

\* the view times of the charuco reconstruction, its earliest and latest
ChViewTimes == {recon_calib_dataset[i].name : i \in 1..Len(recon_calib_dataset)}
ChTMin == CHOOSE x \in ChViewTimes : \A y \in ChViewTimes : x <= y
ChTMax == CHOOSE x \in ChViewTimes : \A y \in ChViewTimes : x >= y

\* view i lies at least 0.1 s after the earliest and more than 0.1 s before
\* the latest view
RetainedByTime(i) ==
  /\ ChTMin + 100000 <= recon_calib_dataset[i].name
  /\ recon_calib_dataset[i].name < ChTMax - 100000

RetainedViewsOf(track_id) ==
  {i \in 1..Len(recon_calib_dataset) :
     RetainedByTime(i) /\ track_id \in recon_calib_dataset[i].tracks}

\* C15: landmarks are known and locked.  Every landmark handed to the
\* estimator is locked and belongs to a track observed in at least two
\* retained views; every camera measurement references a locked landmark
\* created before it, in a retained view that observes the landmark's track;
\* a landmark once created is never unlocked, replaced or dropped.
C15_LandmarksLocked ==
  /\ [](\A n \in 1..Len(kontiki_landmarks) :
          /\ kontiki_landmarks[n].locked
          /\ Cardinality(RetainedViewsOf(kontiki_landmarks[n].track)) >= 2)
  /\ [](\A m \in 1..Len(measurements) :
          /\ measurements[m].landmark \in 1..Len(kontiki_landmarks)
          /\ kontiki_landmarks[measurements[m].landmark].locked
          /\ measurements[m].view \in
               RetainedViewsOf(kontiki_landmarks[measurements[m].landmark].track))
  /\ [][\A n \in 1..Len(kontiki_landmarks) :
          /\ n <= Len(kontiki_landmarks')
          /\ kontiki_landmarks'[n].locked
          /\ kontiki_landmarks'[n].track = kontiki_landmarks[n].track]_vars
  /\ [][measurements' # measurements =>
          (kontiki_landmarks' = kontiki_landmarks /\ kontiki_landmarks # <<>>)]_vars

\* C15 witness: a finished run with camera measurements in which one track
\* was observed in a single retained view and got no landmark
C15_Witness ==
  /\ ch_pc = "ch_done"
  /\ measurements # <<>>
  /\ \E k \in TrackIds :
       /\ Cardinality(RetainedViewsOf(k)) = 1
       /\ \A n \in 1..Len(kontiki_landmarks) : kontiki_landmarks[n].track # k

\* C16: no camera measurement for a view outside the valid evaluation
\* interval.  Every view a camera measurement was created for has a timestamp
\* t with t0 + max(dt_so3, dt_r3) <= t < tend - max(dt_so3, dt_r3), t0 and
\* tend the earliest and latest view time; when the first measurement is added
\* and ever after both splines cover tend.
C16_MeasurementsInsideInterval ==
  /\ [](\A m \in 1..Len(measurements) : RetainedByTime(measurements[m].view))
  /\ [](measurements # <<>> =>
         /\ Covers(r3_traj_spline, ChTMax)
         /\ Covers(so3_traj_spline, ChTMax))
  /\ [][measurements' # measurements =>
          (Covers(r3_traj_spline, ch_tend) /\ Covers(so3_traj_spline, ch_tend))]_vars

\* C16 witness: a finished run in which the view at exactly t0 + 0.1 s yielded
\* a measurement and views at t0, tend - 0.1 s and tend yielded none
C16_Witness ==
  /\ ch_pc = "ch_done"
  /\ \E m \in 1..Len(measurements) :
       recon_calib_dataset[measurements[m].view].name = ChTMin + 100000
  /\ \E i \in 1..Len(recon_calib_dataset) :
       recon_calib_dataset[i].name = ChTMax - 100000

\* C19 (as claimed): with at least one view, the initial pose for t0 is looked
\* up under the nanosecond key under which the earliest view was ingested, the
\* lookup finds that pose and the run never ends on the failed lookup.
\* (Stated for inputs whose reads are in bounds and whose views span more
\* than one time, so that the earliest view is ingested.)
C19_InitialPoseLookupFinds ==
  (ReadsInBounds /\ timestamps # <<>> /\ t0 < tend) =>
    /\ pc # "terminated"
    /\ pc = "init_spline" =>
         /\ tcid_init = TMin * 1000
         /\ tcid_init \in DOMAIN calib_init_poses

\* ------------------------------------------------------------------- C17
Dist2(p, q) == (p[1] - q[1]) * (p[1] - q[1]) + (p[2] - q[2]) * (p[2] - q[2])

SavedPosesApart ==
  \A a, b \in 1..Len(saved_poses) :
    a # b => Dist2(saved_poses[a], saved_poses[b]) >= FLAGS_grid_size * FLAGS_grid_size

ViewAddedWithSavedPose ==
  Len(cc_recon_calib_dataset') > Len(cc_recon_calib_dataset)
    => saved_poses' =
         Append(saved_poses,
                cc_recon_calib_dataset'[Len(cc_recon_calib_dataset')].position)

\* C17: at every moment any two entries of saved_poses are at least
\* FLAGS_grid_size apart, and every step that adds a view to the
\* reconstruction appends that view's camera position to saved_poses.
C17_SavedPosesApart == []SavedPosesApart /\ [][ViewAddedWithSavedPose]_vars

\* the frame loop has ended with three poses saved and three views added,
\* after a frame was refused for being 5 cm from a saved pose
C17_Witness ==
  /\ cc_pc = "cc_check_views"
  /\ Len(saved_poses) = 3
  /\ Len(cc_recon_calib_dataset) = 3
  /\ cc_reads = 4
  /\ \E i \in 1..Len(calibVideo) :
       /\ calibVideo[i].position = <<3, 4>>
       /\ \E k \in 1..Len(saved_poses) : Dist2(calibVideo[i].position, saved_poses[k]) = 25

\* ------------------------------------------------------------------- C18
NotEnoughViews == "Not enough views left for proper calibration!"

\* the frame loop was left by a break (line 199 or 389)
LeftFrameLoop ==
  cc_pc \in {"cc_check_views", "cc_remove_views", "cc_check_views_left",
             "cc_output_str", "cc_write_reconstruction", "cc_write_json", "cc_done"}
  \/ (cc_pc = "cc_returned" /\ NotEnoughViews \in cc_messages)

\* the run ended having decided on the views it had
Decided == cc_pc \in {"cc_returned", "cc_done"} /\ LeftFrameLoop

ModelName(model) ==
  CASE model = "LINEAR_PINHOLE" -> "PINHOLE"
    [] model = "DIVISION_UNDISTORTION" -> "DIVISION_UNDISTORTION"
    [] model = "DOUBLE_SPHERE" -> "DOUBLE_SPHERE"
    [] OTHER -> "null"

\* C20: the camera_type of the result JSON is the name of the model that was
\* calibrated, CameraIDToString returning the name of the model it is given.
C20_CameraTypeNamesModel ==
  json # NoJson =>
    /\ json.camera_type = ModelName(FLAGS_camera_model_to_calibrate)
    /\ \A i \in 1..Len(cc_recon_calib_dataset) :
         CameraIDToString(cc_recon_calib_dataset[i].type) = json.camera_type

\* ------------------------------------------------------------------- C21
\* the file stem named for a model the frame loop accepts
StemOf(model) ==
  CASE model = "LINEAR_PINHOLE" -> "camera_calibration_ph_"
    [] model = "DIVISION_UNDISTORTION" -> "camera_calibration_div_"
    [] model = "DOUBLE_SPHERE" -> "camera_calibration_ds_"
    [] OTHER -> "none"

\* C21: every file written carries the stem of the model that was calibrated
\* (camera_calibration_ph_, camera_calibration_div_ or camera_calibration_ds_)
\* before its extension, and the stem is not empty when a file is written.
C21_OutputStemPerModel ==
  written # <<>> =>
    /\ output_str # ""
    /\ output_str = StemOf(FLAGS_camera_model_to_calibrate)
    /\ \A i \in 1..Len(written) :
         written[i].file \in {StemOf(FLAGS_camera_model_to_calibrate) \o ".calibdata",
                              StemOf(FLAGS_camera_model_to_calibrate) \o ".json"}

\* ------------------------------------------------------------------- C22
\* the ids of the views in the reconstruction
CcViewIds == {cc_recon_calib_dataset[i].id : i \in 1..Len(cc_recon_calib_dataset)}

\* C22: when a result file has been written, no view recorded in
\* ids_to_remove_after_init is in the reconstruction.
C22_InitOutliersRemoved ==
  written # <<>> => CcViewIds \cap ids_to_remove_after_init = {}

\* ------------------------------------------------------------------- C23
\* the frame loop is behind
CcLoopLeft == cc_pc \notin {"cc_read_detector", "cc_open_video", "cc_frames"}
ChLoopLeft ==
  ch_pc \notin {"ch_read_reconstruction", "ch_read_telemetry", "ch_read_detector",
                "ch_frames"}

\* what a step does to calibrate_camera's frame loop
CcLoopStep ==
  /\ cc_cnt_wrong' >= cc_cnt_wrong
  /\ (cc_pc = "cc_frames" /\ cc_cnt_wrong' # cc_cnt_wrong) =>
       /\ cc_cnt_wrong' = cc_cnt_wrong + 1
       /\ (cc_pc' # "cc_frames") <=> (cc_cnt_wrong' > MaxCntWrongCalib)
  /\ CcLoopLeft =>
       /\ cc_pc' # "cc_frames"
       /\ <<cc_reads, cc_cnt_wrong, cc_frame_cnt, saved_poses>>' =
            <<cc_reads, cc_cnt_wrong, cc_frame_cnt, saved_poses>>
       /\ Len(cc_recon_calib_dataset') <= Len(cc_recon_calib_dataset)

\* what a step does to create_imu_camera_charuco's frame loop
ChLoopStep ==
  /\ ch_cnt_wrong' >= ch_cnt_wrong
  /\ (ch_pc = "ch_frames" /\ ch_cnt_wrong' # ch_cnt_wrong) =>
       /\ ch_cnt_wrong' = ch_cnt_wrong + 1
       /\ (ch_pc' # "ch_frames") <=> (ch_cnt_wrong' > MaxCntWrongCharuco)
  /\ ChLoopLeft =>
       /\ ch_pc' # "ch_frames"
       /\ <<ch_reads, ch_cnt_wrong, ch_frame_cnt, recon_calib_dataset>>' =
            <<ch_reads, ch_cnt_wrong, ch_frame_cnt, recon_calib_dataset>>

\* C23: each frame loop is eventually left; a failed read leaves it exactly
\* when the count of failed reads then exceeds 500 (calibrate_camera) or 200
\* (create_imu_camera_charuco); the count never decreases, so no successful
\* read resets it; and once a loop is left it is not entered again, no frame
\* is read and no view is added.
C23_FrameLoopsTerminate ==
  /\ (cc_pc = "cc_frames") ~> (cc_pc # "cc_frames")
  /\ (ch_pc = "ch_frames") ~> (ch_pc # "ch_frames")
  /\ [][CcLoopStep /\ ChLoopStep]_vars

\* both loops were left on the count of failed reads, each after a failed
\* read was followed by a frame
C23_Witness ==
  /\ ch_pc # "ch_frames" /\ ch_cnt_wrong = MaxCntWrongCharuco + 1 /\ ch_frame_cnt = 3
  /\ cc_pc = "cc_check_views" /\ cc_cnt_wrong = MaxCntWrongCalib + 1 /\ cc_frame_cnt = 2
  /\ ~inputVideo[1].ok
  /\ ~calibVideo[1].ok

====
